---- MODULE Spec2Model ----
(***************************************************************************)
(* A model of lago/lago_ansible.py: the nested-key resolver get_key, the   *)
(* inventory builder get_inventory, its INI rendering get_inventory_str    *)
(* and the temporary-file context manager get_inventory_temp_file.         *)
(*                                                                         *)
(* Python strings are sequences of one-character strings, so that split,   *)
(* int(), format, join and sorted are modelled by what they do.  Python    *)
(* values are tagged records: None, int, str, list and dict (a dict is a   *)
(* sequence of <<key, value>> pairs with distinct keys); each kind keeps   *)
(* its content in a field of its own.                                      *)
(***************************************************************************)
EXTENDS Integers, Sequences, FiniteSets, TLC

VARIABLES
    pc,              \* position of the call being modelled
    key,             \* get_key: the path argument
    data_structure,  \* get_key: the structure argument
    result,          \* get_key: the outcome of the call
    vms,             \* the prefix: its VMs, in the order of get_vms().values()
    keys,            \* the keys argument of the inventory calls
    inventory,       \* the outcome of get_inventory
    text,            \* the outcome of get_inventory_str
    temp_file,       \* get_inventory_temp_file: the NamedTemporaryFile
    leaving,         \* how the caller's with-block was left
    read_back        \* what the caller read from the file it was handed

keyVars == <<key, data_structure, result>>
inventoryVars == <<vms, keys, inventory, text>>
fileVars == <<temp_file, leaving, read_back>>
vars == <<pc, keyVars, inventoryVars, fileVars>>

(***************************************************************************)
(* Bounds of the model.                                                    *)
(***************************************************************************)
MaxKeyLen == 5       \* longest path handed to get_key, in characters
MaxVMs == 2          \* most VMs of a prefix
MaxKeys == 2         \* most grouping keys of one call

(***************************************************************************)
(* Python values.                                                          *)
(***************************************************************************)
None == [tag |-> "none"]
PyInt(i) == [tag |-> "int", int |-> i]
PyStr(s) == [tag |-> "str", chars |-> s]
PyList(l) == [tag |-> "list", items |-> l]
PyDict(p) == [tag |-> "dict", pairs |-> p]

\* The elements a list or a str is indexed over.
Elements(value) == IF value.tag = "list" THEN value.items ELSE value.chars

\* The outcome of a call: a returned value or a raised exception.
Returned(value) == [kind |-> "return", exc |-> "", v |-> value]
Raised(exception) == [kind |-> "raise", exc |-> exception, v |-> None]

(***************************************************************************)
(* str.split(sep) for a one-character separator.                           *)
(***************************************************************************)
RECURSIVE Split(_, _)
Split(s, sep) ==
    IF \A i \in 1..Len(s) : s[i] # sep
    THEN <<s>>
    ELSE LET i == CHOOSE j \in 1..Len(s) :
                      s[j] = sep /\ \A k \in 1..(j - 1) : s[k] # sep
         IN  <<SubSeq(s, 1, i - 1)>> \o Split(SubSeq(s, i + 1, Len(s)), sep)

(***************************************************************************)
(* int(s) for a string: surrounding whitespace is stripped, one optional   *)
(* sign, then at least one decimal digit and nothing else; anything else   *)
(* is a ValueError.                                                        *)
(***************************************************************************)
Digits == <<"0", "1", "2", "3", "4", "5", "6", "7", "8", "9">>
Whitespace == {" ", "\t", "\n", "\r"}
IsDigit(c) == \E i \in 1..Len(Digits) : Digits[i] = c
DigitValue(c) == (CHOOSE i \in 1..Len(Digits) : Digits[i] = c) - 1

RECURSIVE Strip(_)
Strip(s) ==
    IF s = <<>> THEN s
    ELSE IF Head(s) \in Whitespace THEN Strip(Tail(s))
    ELSE IF s[Len(s)] \in Whitespace THEN Strip(SubSeq(s, 1, Len(s) - 1))
    ELSE s

Unsigned(s) ==
    LET t == Strip(s)
    IN  IF t # <<>> /\ Head(t) \in {"+", "-"} THEN Tail(t) ELSE t

IsIntLiteral(s) ==
    /\ Unsigned(s) # <<>>
    /\ \A i \in 1..Len(Unsigned(s)) : IsDigit(Unsigned(s)[i])

RECURSIVE DecimalValue(_)
DecimalValue(digits) ==
    IF digits = <<>> THEN 0
    ELSE 10 * DecimalValue(SubSeq(digits, 1, Len(digits) - 1))
             + DigitValue(digits[Len(digits)])

IntValue(s) ==
    IF Head(Strip(s)) = "-" THEN 0 - DecimalValue(Unsigned(s))
    ELSE DecimalValue(Unsigned(s))

\* try: current_key = int(current_key) / except ValueError: pass
ConvertKey(current_key) ==
    IF IsIntLiteral(current_key) THEN PyInt(IntValue(current_key))
    ELSE PyStr(current_key)

\* str(i) for an int.
RECURSIVE NaturalDigits(_)
NaturalDigits(n) ==
    IF n < 10 THEN <<Digits[n + 1]>>
    ELSE NaturalDigits(n \div 10) \o <<Digits[(n % 10) + 1]>>

IntToStr(i) == IF i < 0 THEN <<"-">> \o NaturalDigits(0 - i) ELSE NaturalDigits(i)

(***************************************************************************)
(* current_value[current_key]: the subscript of a Python value.  A dict    *)
(* looks the key up by equality (the int 0 and the str "0" differ) and     *)
(* raises KeyError; a list or a str takes an int, negative ones counting   *)
(* from the end, raises IndexError out of range and TypeError for a str    *)
(* key; an int or None cannot be subscripted at all (TypeError).           *)
(***************************************************************************)
Lookup(pairs, current_key) ==
    LET hits == {i \in 1..Len(pairs) : pairs[i][1] = current_key}
    IN  IF hits = {} THEN Raised("KeyError")
        ELSE Returned(pairs[CHOOSE i \in hits : TRUE][2])

SequenceItem(current_value, current_key) ==
    IF current_key.tag # "int" THEN Raised("TypeError")
    ELSE LET n == Len(Elements(current_value))
             i == IF current_key.int < 0 THEN current_key.int + n
                  ELSE current_key.int
         IN  IF i < 0 \/ i >= n THEN Raised("IndexError")
             ELSE IF current_value.tag = "list"
                  THEN Returned(current_value.items[i + 1])
                  ELSE Returned(PyStr(<<current_value.chars[i + 1]>>))

\* A subscript that retries an int key a dict does not hold as its str form.
SubscriptWithFallback(current_value, current_key) ==
    CASE current_value.tag = "dict" ->
            IF /\ current_key.tag = "int"
               /\ Lookup(current_value.pairs, current_key).kind = "raise"
            THEN Lookup(current_value.pairs, PyStr(IntToStr(current_key.int)))
            ELSE Lookup(current_value.pairs, current_key)
      [] current_value.tag \in {"list", "str"} ->
            SequenceItem(current_value, current_key)
      [] OTHER -> Raised("TypeError")

Subscript(current_value, current_key) ==
    CASE current_value.tag = "dict" -> Lookup(current_value.pairs, current_key)
      [] current_value.tag \in {"list", "str"} ->
            SequenceItem(current_value, current_key)
      [] OTHER -> Raised("TypeError")

(***************************************************************************)
(* get_key: the while loop over the path, and the function itself.         *)
(***************************************************************************)
RECURSIVE Walk(_, _)
Walk(path, current_value) ==
    IF path = <<>> THEN Returned(current_value)
    ELSE LET step == Subscript(current_value, ConvertKey(Head(path)))
         IN  IF step.kind = "return" THEN Walk(Tail(path), step.v)
             ELSE IF step.exc \in {"KeyError", "IndexError"}
                  THEN Returned(None)
                  ELSE step

\* A path that keeps its leading empty segment.
KeepLeadingEmpty(path) == path

\* path[0] or path.pop(0)
DropLeadingEmpty(path) == IF path[1] = <<>> THEN Tail(path) ELSE path

get_key(k, d) ==
    IF k = <<"/">> THEN Returned(d)
    ELSE Walk(DropLeadingEmpty(Split(k, "/")), d)

(***************************************************************************)
(* The inputs of get_key.                                                  *)
(***************************************************************************)
KeyChars == {"/", "a", "0", "1", "-"}
Keys == UNION {[1..n -> KeyChars] : n \in 0..MaxKeyLen}

a == <<"a">>
x == <<"x">>
y == <<"y">>

DataStructures == {
    PyDict(<< <<PyStr(a), PyList(<<PyDict(<< <<PyStr(a), PyInt(5)>> >>)>>)>> >>),
    PyDict(<< <<PyStr(a), PyList(<<PyInt(1), PyInt(2)>>)>> >>),
    PyDict(<< <<PyStr(a), PyInt(5)>> >>),
    PyDict(<< <<PyStr(<<"0">>), PyStr(x)>>, <<PyStr(a), PyStr(y)>> >>),
    PyDict(<< <<PyInt(0), PyStr(x)>> >>),
    PyDict(<< <<PyStr(<<>>), PyDict(<< <<PyStr(a), PyStr(x)>> >>)>> >>),
    PyDict(<< <<PyStr(a), None>> >>),
    PyDict(<< >>),
    PyList(<<PyStr(x), PyDict(<< <<PyStr(a), PyStr(y)>> >>)>>),
    PyList(<<PyStr(<<"x", "y">>)>>),
    PyList(<<PyDict(<< <<PyStr(a), PyInt(5)>> >>)>>),
    PyList(<<PyInt(1), PyInt(2)>>) }

(***************************************************************************)
(* Calls of get_key.                                                       *)
(***************************************************************************)
NoResult == Returned(None)
NoInventory == [kind |-> "return", exc |-> "", v |-> <<>>]
NoText == [kind |-> "return", exc |-> "", v |-> <<>>]
NoFile == [open |-> FALSE, exists |-> FALSE, data |-> <<>>, disk |-> <<>>,
           position |-> 0, calls |-> <<>>]
NotRead == [done |-> FALSE, chars |-> <<>>]

InitKey ==
    /\ pc = "call"
    /\ key \in Keys
    /\ data_structure \in DataStructures
    /\ result = NoResult
    /\ vms = <<>>
    /\ keys = None
    /\ inventory = NoInventory
    /\ text = NoText
    /\ temp_file = NoFile
    /\ leaving = "no"
    /\ read_back = NotRead

GetKey ==
    /\ pc = "call"
    /\ result' = get_key(key, data_structure)
    /\ pc' = "done"
    /\ UNCHANGED <<key, data_structure, inventoryVars, fileVars>>

NextKey == GetKey

SpecKey == InitKey /\ [][NextKey]_vars

(***************************************************************************)
(* Strings: str.join, the order of sorted() on strings, repr and format.   *)
(***************************************************************************)
RECURSIVE Join(_, _)
Join(sep, lines) ==
    IF lines = <<>> THEN <<>>
    ELSE IF Len(lines) = 1 THEN lines[1]
    ELSE lines[1] \o sep \o Join(sep, Tail(lines))

\* The characters of the model in the order of their code points.
CodeOrder == <<"\n", " ", "'", "+", ",", "-", ".", "/",
               "0", "1", "2", "3", "4", "5", "6", "7", "8", "9",
               ":", "=", "N", "[", "]", "_",
               "a", "b", "c", "d", "e", "f", "g", "h", "i", "j", "k", "l", "m",
               "n", "o", "p", "q", "r", "s", "t", "u", "v", "w", "x", "y", "z",
               "{", "}">>
Ord(c) == CHOOSE i \in 1..Len(CodeOrder) : CodeOrder[i] = c

\* s1 <= s2 in Python's order of strings.
RECURSIVE StrLeq(_, _)
StrLeq(s1, s2) ==
    IF s1 = <<>> THEN TRUE
    ELSE IF s2 = <<>> THEN FALSE
    ELSE IF Head(s1) = Head(s2) THEN StrLeq(Tail(s1), Tail(s2))
    ELSE Ord(Head(s1)) < Ord(Head(s2))

RECURSIVE Insert(_, _)
Insert(sorted_hosts, host) ==
    IF sorted_hosts = <<>> THEN <<host>>
    ELSE IF StrLeq(host, Head(sorted_hosts)) THEN <<host>> \o sorted_hosts
    ELSE <<Head(sorted_hosts)>> \o Insert(Tail(sorted_hosts), host)

\* Hosts left in the order of the list.
Unsorted(hosts) == hosts

\* sorted(hosts)
RECURSIVE Sorted(_)
Sorted(hosts) ==
    IF hosts = <<>> THEN <<>>
    ELSE Insert(Sorted(Tail(hosts)), Head(hosts))

\* repr(value).  The entries of a dict are taken in the order of its pairs:
\* the dicts formatted here have one entry.
RECURSIVE Repr(_)
Repr(value) ==
    CASE value.tag = "none" -> <<"N", "o", "n", "e">>
      [] value.tag = "int" -> IntToStr(value.int)
      [] value.tag = "str" -> <<"'">> \o value.chars \o <<"'">>
      [] value.tag = "list" ->
            <<"[">> \o Join(<<",", " ">>,
                            [i \in 1..Len(value.items) |-> Repr(value.items[i])])
                    \o <<"]">>
      [] value.tag = "dict" ->
            <<"{">> \o Join(<<",", " ">>,
                            [i \in 1..Len(value.pairs) |->
                                Repr(value.pairs[i][1]) \o <<":", " ">>
                                                        \o Repr(value.pairs[i][2])])
                    \o <<"}">>

\* '{}'.format(value)
Format(value) == IF value.tag = "str" THEN value.chars ELSE Repr(value)

\* '{}={}'.format(key, value)
GroupName(k, value) == k \o <<"=">> \o Format(value)

(***************************************************************************)
(* get_inventory.  The defaultdict is a sequence of groups, each a name    *)
(* and its list of hosts; the sequence keeps the groups in the order of    *)
(* their first insertion, which the dict itself does not.                  *)
(***************************************************************************)
ssh_id_rsa == <<"/", "i", "d", "_", "r", "s", "a">>

\* _generate_entry(vm)
_generate_entry(vm) ==
    vm.name \o <<" ", "a", "n", "s", "i", "b", "l", "e", "_", "h", "o", "s", "t", "=">>
            \o vm.ip \o <<" ", "a", "n", "s", "i", "b", "l", "e", "_", "s", "s", "h", "_", "p", "r", "i", "v", "a", "t", "e", "_", "k", "e", "y", "_", "f", "i", "l", "e", "=">>
            \o ssh_id_rsa

DefaultKeys == <<<<"v", "m", "-", "t", "y", "p", "e">>,
                 <<"g", "r", "o", "u", "p", "s">>,
                 <<"v", "m", "-", "p", "r", "o", "v", "i", "d", "e", "r">>>>

\* Defaults that replace only an omitted list.
DefaultsOnlyForNone(keys_arg) ==
    IF keys_arg.tag = "none" THEN DefaultKeys ELSE keys_arg.items

\* keys or ['vm-type', 'groups', 'vm-provider']
EffectiveKeys(keys_arg) ==
    IF keys_arg.tag = "none" \/ keys_arg.items = <<>> THEN DefaultKeys
    ELSE keys_arg.items

\* inventory[name].append(entry)
AppendHost(groups, name, entry) ==
    IF \E i \in 1..Len(groups) : groups[i].name = name
    THEN [i \in 1..Len(groups) |->
             IF groups[i].name = name
             THEN [groups[i] EXCEPT !.hosts = Append(@, entry)]
             ELSE groups[i]]
    ELSE Append(groups, [name |-> name, hosts |-> <<entry>>])

\* for sub_value in value: inventory['{}={}'.format(key, sub_value)].append(entry)
RECURSIVE AppendForEach(_, _, _, _)
AppendForEach(groups, k, sub_values, entry) ==
    IF sub_values = <<>> THEN groups
    ELSE AppendForEach(AppendHost(groups, GroupName(k, Head(sub_values)), entry),
                       k, Tail(sub_values), entry)

\* A grouping that files a VM without the value under "key=None".
GroupValueKeepingNone(groups, k, value, entry) ==
    IF value.tag = "list" THEN AppendForEach(groups, k, value.items, entry)
    ELSE AppendHost(groups, GroupName(k, value), entry)

\* The body of "for key in keys" once get_key has returned value.
GroupValue(groups, k, value, entry) ==
    IF value.tag = "none" THEN groups
    ELSE IF value.tag = "list" THEN AppendForEach(groups, k, value.items, entry)
    ELSE AppendHost(groups, GroupName(k, value), entry)

InventoryReturned(groups) == [kind |-> "return", exc |-> "", v |-> groups]
InventoryRaised(exception) == [kind |-> "raise", exc |-> exception, v |-> <<>>]

\* for key in keys: ... ; an exception of get_key leaves the call.
RECURSIVE ForKeys(_, _, _)
ForKeys(groups, ks, vm) ==
    IF ks = <<>> THEN InventoryReturned(groups)
    ELSE LET value == get_key(Head(ks), vm.spec)
         IN  IF value.kind = "raise" THEN InventoryRaised(value.exc)
             ELSE ForKeys(GroupValue(groups, Head(ks), value.v, _generate_entry(vm)),
                          Tail(ks), vm)

\* for vm in vms: ...
RECURSIVE ForVMs(_, _, _)
ForVMs(groups, machines, ks) ==
    IF machines = <<>> THEN InventoryReturned(groups)
    ELSE LET done == ForKeys(groups, ks, Head(machines))
         IN  IF done.kind = "raise" THEN done
             ELSE ForVMs(done.v, Tail(machines), ks)

get_inventory(keys_arg, machines) ==
    ForVMs(<<>>, machines, EffectiveKeys(keys_arg))

(***************************************************************************)
(* get_inventory_str.  viewitems() of a Python 2 dict yields the groups in *)
(* an order the insertions do not determine: order is any arrangement of   *)
(* the groups.                                                             *)
(***************************************************************************)
RECURSIVE Orderings(_)
Orderings(S) ==
    IF S = {} THEN {<<>>}
    ELSE UNION {{<<i>> \o o : o \in Orderings(S \ {i})} : i \in S}

\* Lines with an empty line ahead of every group but the first.
RECURSIVE LinesBlankBetween(_, _)
LinesBlankBetween(groups, order) ==
    IF order = <<>> THEN <<>>
    ELSE <<(<<"[">> \o groups[Head(order)].name \o <<"]">>)>>
            \o Sorted(groups[Head(order)].hosts)
            \o (IF Tail(order) = <<>> THEN <<>> ELSE << <<>> >>)
            \o LinesBlankBetween(groups, Tail(order))

RECURSIVE Lines(_, _)
Lines(groups, order) ==
    IF order = <<>> THEN <<>>
    ELSE <<(<<"[">> \o groups[Head(order)].name \o <<"]">>)>>
            \o Sorted(groups[Head(order)].hosts)
            \o Lines(groups, Tail(order))

get_inventory_str(built, order) ==
    IF built.kind = "raise" THEN built
    ELSE InventoryReturned(Join(<<"\n">>, Lines(built.v, order)))

(***************************************************************************)
(* The prefixes and the keys of the inventory calls.                       *)
(***************************************************************************)
Names == {<<"a">>, <<"b">>, <<"a", "b">>}
AddressOf(name) ==
    CASE name = <<"a">> -> <<"1">>
      [] name = <<"b">> -> <<"2">>
      [] OTHER -> <<"3">>

vm_type == <<"v", "m", "-", "t", "y", "p", "e">>
groups_key == <<"g", "r", "o", "u", "p", "s">>
vm_provider == <<"v", "m", "-", "p", "r", "o", "v", "i", "d", "e", "r">>

VMSpecs == {
    PyDict(<< <<PyStr(vm_type), PyStr(x)>>, <<PyStr(vm_provider), PyStr(y)>> >>),
    PyDict(<< <<PyStr(vm_type), PyList(<<PyStr(x), PyStr(y)>>)>>,
              <<PyStr(groups_key), PyList(<<PyStr(x)>>)>> >>),
    PyDict(<< <<PyStr(vm_type), None>>, <<PyStr(groups_key), PyInt(1)>> >>),
    PyDict(<< <<PyStr(groups_key), PyStr(<<"1">>)>>, <<PyStr(a), PyInt(5)>> >>),
    PyDict(<< <<PyStr(vm_type), PyList(<<PyStr(x), PyStr(x)>>)>>,
              <<PyStr(a), PyList(<<PyDict(<< <<PyStr(a), PyInt(5)>> >>)>>)>> >>) }

VMs == {[name |-> n, ip |-> AddressOf(n), spec |-> s] : n \in Names, s \in VMSpecs}

\* get_vms() is a dict keyed by name: the VMs of a prefix differ in name.
Prefixes ==
    {p \in UNION {[1..n -> VMs] : n \in 0..MaxVMs} :
        \A i, j \in 1..Len(p) : i # j => p[i].name # p[j].name}

GroupingKeys == {groups_key, <<"a", "/", "0">>}
KeyArguments ==
    {None} \cup {PyList(ks) : ks \in UNION {[1..n -> GroupingKeys] : n \in 0..MaxKeys}}

(***************************************************************************)
(* Calls of get_inventory and get_inventory_str on one prefix.             *)
(***************************************************************************)
InitInventory ==
    /\ pc = "call"
    /\ vms \in Prefixes
    /\ keys \in KeyArguments
    /\ inventory = NoInventory
    /\ text = NoText
    /\ key = <<>>
    /\ data_structure = None
    /\ result = NoResult
    /\ temp_file = NoFile
    /\ leaving = "no"
    /\ read_back = NotRead

GetInventory ==
    /\ pc = "call"
    /\ inventory' = get_inventory(keys, vms)
    /\ pc' = "built"
    /\ UNCHANGED <<keyVars, vms, keys, text, fileVars>>

GetInventoryStr ==
    /\ pc = "built"
    /\ LET built == get_inventory(keys, vms)
       IN  \E order \in Orderings(1..Len(built.v)) :
               text' = get_inventory_str(built, order)
    /\ pc' = "rendered"
    /\ UNCHANGED <<keyVars, vms, keys, inventory, fileVars>>

NextInventory == GetInventory \/ GetInventoryStr

SpecInventory == InitInventory /\ [][NextInventory]_vars

(***************************************************************************)
(* The temporary file.  data is the content as the process sees it, disk   *)
(* what has been written out; calls lists the methods called on the file.  *)
(* A NamedTemporaryFile is deleted when it is closed.                      *)
(***************************************************************************)
\* tempfile.NamedTemporaryFile(mode='r+t')
NewTempFile == [open |-> TRUE, exists |-> TRUE, data |-> <<>>, disk |-> <<>>,
                position |-> 0, calls |-> <<>>]

\* temp_file.write(chars): at the position, over what is there.
FileWrite(f, chars) ==
    [f EXCEPT !.data = SubSeq(@, 1, f.position) \o chars
                          \o SubSeq(@, f.position + Len(chars) + 1, Len(@)),
              !.position = @ + Len(chars),
              !.calls = Append(@, "write")]

\* temp_file.flush()
FileFlush(f) == [f EXCEPT !.disk = f.data, !.calls = Append(@, "flush")]

\* A seek that leaves the position where it is.
FileSeekStays(f, offset) ==
    [f EXCEPT !.disk = f.data, !.calls = Append(@, "seek")]

\* temp_file.seek(offset): buffered output is written out before the move.
FileSeek(f, offset) ==
    [f EXCEPT !.disk = f.data, !.position = offset, !.calls = Append(@, "seek")]

\* temp_file.read(): the rest of the file from the position.
FileRead(f) == SubSeq(f.data, f.position + 1, Len(f.data))

\* temp_file.close()
FileClose(f) ==
    [f EXCEPT !.open = FALSE, !.exists = FALSE, !.disk = <<>>, !.data = <<>>,
              !.calls = Append(@, "close")]

(***************************************************************************)
(* get_inventory_temp_file, a generator run by contextlib.contextmanager:  *)
(* entering the with-block runs it up to the yield; leaving the block      *)
(* normally or by return/break/continue resumes it after the yield;        *)
(* leaving by an exception raises that exception at the yield, where       *)
(* nothing catches it.                                                     *)
(***************************************************************************)
\* The prefixes and keys of the temporary-file calls: the VMs are named in
\* one order, and at most one key is given.
FilePrefixes ==
    {p \in Prefixes :
        \A i \in 1..Len(p) : p[i].name = <<<<"b">>, <<"a">>, <<"a", "b">>>>[i]}
FileKeyArguments ==
    {k \in KeyArguments : k.tag = "list" => Len(k.items) <= 1}

InitFile ==
    /\ pc = "line149"
    /\ vms \in FilePrefixes
    /\ keys \in FileKeyArguments
    /\ inventory = NoInventory
    /\ text = NoText
    /\ key = <<>>
    /\ data_structure = None
    /\ result = NoResult
    /\ temp_file = NoFile
    /\ leaving = "no"
    /\ read_back = NotRead

\* line 149
CreateTempFile ==
    /\ pc = "line149"
    /\ temp_file' = NewTempFile
    /\ pc' = "line150"
    /\ UNCHANGED <<keyVars, inventoryVars, leaving, read_back>>

\* line 150: an exception of get_inventory_str leaves the generator.
RenderInventory ==
    /\ pc = "line150"
    /\ LET built == get_inventory(keys, vms)
       IN  \E order \in Orderings(1..Len(built.v)) :
               text' = get_inventory_str(built, order)
    /\ pc' = IF text'.kind = "raise" THEN "raised" ELSE "line155"
    /\ UNCHANGED <<keyVars, vms, keys, inventory, fileVars>>

\* line 155
WriteInventory ==
    /\ pc = "line155"
    /\ temp_file' = FileWrite(temp_file, text.v)
    /\ pc' = "line156"
    /\ UNCHANGED <<keyVars, inventoryVars, leaving, read_back>>

\* line 156
FlushFile ==
    /\ pc = "line156"
    /\ temp_file' = FileFlush(temp_file)
    /\ pc' = "line157"
    /\ UNCHANGED <<keyVars, inventoryVars, leaving, read_back>>

\* line 157
SeekStart ==
    /\ pc = "line157"
    /\ temp_file' = FileSeek(temp_file, 0)
    /\ pc' = "line158"
    /\ UNCHANGED <<keyVars, inventoryVars, leaving, read_back>>

\* line 158: the file is handed to the with-block of the caller.
YieldFile ==
    /\ pc = "line158"
    /\ pc' = "with-block"
    /\ UNCHANGED <<keyVars, inventoryVars, fileVars>>

\* The caller reads the file it was handed.
CallerReads ==
    /\ pc = "with-block"
    /\ ~read_back.done
    /\ read_back' = [done |-> TRUE, chars |-> FileRead(temp_file)]
    /\ temp_file' = [temp_file EXCEPT !.position = Len(temp_file.data),
                                      !.calls = Append(@, "read")]
    /\ UNCHANGED <<pc, keyVars, inventoryVars, leaving>>

\* The with-block runs to its end: the generator is resumed after the yield.
BlockCompletes ==
    /\ pc = "with-block"
    /\ leaving' = "completed"
    /\ pc' = "line159"
    /\ UNCHANGED <<keyVars, inventoryVars, temp_file, read_back>>

\* The with-block is left by return, break or continue: the same.
BlockExitsEarly ==
    /\ pc = "with-block"
    /\ leaving' = "early exit"
    /\ pc' = "line159"
    /\ UNCHANGED <<keyVars, inventoryVars, temp_file, read_back>>

\* The with-block raises: the exception is thrown into the generator at the
\* yield of line 158, no try statement encloses it, the generator ends
\* there and line 159 is not run.
BlockRaises ==
    /\ pc = "with-block"
    /\ leaving' = "exception"
    /\ pc' = "left"
    /\ UNCHANGED <<keyVars, inventoryVars, temp_file, read_back>>

\* line 159
CloseFile ==
    /\ pc = "line159"
    /\ temp_file' = FileClose(temp_file)
    /\ pc' = "left"
    /\ UNCHANGED <<keyVars, inventoryVars, leaving, read_back>>

NextFile ==
    \/ CreateTempFile
    \/ RenderInventory
    \/ WriteInventory
    \/ FlushFile
    \/ SeekStart
    \/ YieldFile
    \/ CallerReads
    \/ BlockCompletes
    \/ BlockExitsEarly
    \/ BlockRaises
    \/ CloseFile

SpecFile == InitFile /\ [][NextFile]_vars

(***************************************************************************)
(* Properties of get_key.                                                  *)
(***************************************************************************)
\* The segments get_key walks for the path k (k is not the root selector).
Segments(k) == DropLeadingEmpty(Split(k, "/"))

\* Every subscript of the walk along path succeeds.
RECURSIVE Resolves(_, _)
Resolves(path, current_value) ==
    \/ path = <<>>
    \/ LET step == Subscript(current_value, ConvertKey(Head(path)))
       IN  step.kind = "return" /\ Resolves(Tail(path), step.v)

\* C2 (as stated): get_key never raises; whenever a step of the walk cannot
\* be taken (key absent, index out of range, value not indexable) it returns
\* None.
C2_NeverRaises ==
    pc = "done" =>
        /\ result.kind = "return"
        /\ (key # <<"/">> /\ ~Resolves(Segments(key), data_structure))
               => result = Returned(None)

\* C2 (what holds of it): a missing key and an index out of range give None,
\* and the only exception get_key raises is the TypeError of a subscript.
C2_OnlyTypeError ==
    (pc = "done" /\ key # <<"/">>) =>
        /\ result.kind = "raise" => result.exc = "TypeError"
        /\ Resolves(Segments(key), data_structure) =>
               (result.kind = "return" /\ result = Walk(Segments(key), data_structure))

\* C9 (as stated): get_key("/", d) is d, get_key("", d) is the same, and
\* for every path p, get_key("/" + p, d) equals get_key(p, d).
C9_LeadingSlashAnyPath ==
    pc = "done" =>
        /\ key \in {<<>>, <<"/">>} => result = Returned(data_structure)
        /\ get_key(<<"/">> \o key, data_structure) = result

\* C9 (amended): get_key("/", d) is d, get_key("", d) is the same, and for
\* every path p that does not itself begin with "/", get_key("/" + p, d)
\* equals get_key(p, d), raised exceptions included.
C9_LeadingSlash ==
    pc = "done" =>
        /\ key \in {<<>>, <<"/">>} => result = Returned(data_structure)
        /\ (key = <<>> \/ Head(key) # "/")
               => get_key(<<"/">> \o key, data_structure) = result

C9_Witness ==
    /\ pc = "done"
    /\ key = <<"a", "/", "0", "/", "a">>
    /\ result = Returned(PyInt(5))
    /\ get_key(<<"/">> \o key, data_structure) = Returned(PyInt(5))

\* C10: a first segment that parses as an integer is used only as an index:
\* on a list it selects the element at that index and the walk goes on from
\* it (None when out of range), on a dict whose keys are all strings the
\* result is None even when the dict holds the segment as a string key; a
\* segment that does not parse as an integer is looked up in a dict as a
\* string key (None when absent).
StringKeyed(d) == \A i \in 1..Len(d.pairs) : d.pairs[i][1].tag = "str"

C10_IntegerSegmentIsIndex ==
    (pc = "done" /\ key # <<"/">> /\ Segments(key) # <<>>) =>
        LET seg == Head(Segments(key))
            rest == Tail(Segments(key))
            d == data_structure
        IN  /\ (IsIntLiteral(seg) /\ d.tag = "list") =>
                  LET n == Len(d.items)
                      idx == IF IntValue(seg) < 0 THEN IntValue(seg) + n
                             ELSE IntValue(seg)
                  IN  IF idx >= 0 /\ idx < n
                      THEN result = Walk(rest, d.items[idx + 1])
                      ELSE result = Returned(None)
            /\ (IsIntLiteral(seg) /\ d.tag = "dict" /\ StringKeyed(d)) =>
                  result = Returned(None)
            /\ (~IsIntLiteral(seg) /\ d.tag = "dict") =>
                  IF \E i \in 1..Len(d.pairs) : d.pairs[i][1] = PyStr(seg)
                  THEN \E i \in 1..Len(d.pairs) :
                          /\ d.pairs[i][1] = PyStr(seg)
                          /\ result = Walk(rest, d.pairs[i][2])
                  ELSE result = Returned(None)

C10_Witness ==
    /\ pc = "done"
    /\ key = <<"0">>
    /\ data_structure.tag = "dict"
    /\ \E i \in 1..Len(data_structure.pairs) :
          data_structure.pairs[i][1] = PyStr(<<"0">>)
    /\ result = Returned(None)

(***************************************************************************)
(* Properties of get_inventory and get_inventory_str.                      *)
(***************************************************************************)
\* The hosts of the group called name, none when there is no such group.
HostsOf(groups, name) ==
    IF \E i \in 1..Len(groups) : groups[i].name = name
    THEN groups[CHOOSE i \in 1..Len(groups) : groups[i].name = name].hosts
    ELSE <<>>

GroupNames(groups) == {groups[i].name : i \in 1..Len(groups)}

\* What a grouping key resolves to on a spec: None when the walk fails.
Resolved(k, vm_spec) ==
    IF get_key(k, vm_spec).kind = "return" THEN get_key(k, vm_spec).v ELSE None

\* The values under which a VM is filed for one key.
GroupingValues(k, vm_spec) ==
    LET value == Resolved(k, vm_spec)
    IN  IF value.tag = "none" THEN <<>>
        ELSE IF value.tag = "list" THEN value.items
        ELSE <<value>>

\* How many times the VM belongs to the group called name.
RECURSIVE Memberships(_, _, _)
Memberships(name, ks, vm_spec) ==
    IF ks = <<>> THEN 0
    ELSE Cardinality({j \in 1..Len(GroupingValues(Head(ks), vm_spec)) :
                         GroupName(Head(ks), GroupingValues(Head(ks), vm_spec)[j]) = name})
         + Memberships(name, Tail(ks), vm_spec)

RECURSIVE Repeat(_, _)
Repeat(entry, n) == IF n = 0 THEN <<>> ELSE <<entry>> \o Repeat(entry, n - 1)

RECURSIVE ExpectedHosts(_, _, _)
ExpectedHosts(name, ks, machines) ==
    IF machines = <<>> THEN <<>>
    ELSE Repeat(_generate_entry(Head(machines)),
                Memberships(name, ks, Head(machines).spec))
         \o ExpectedHosts(name, ks, Tail(machines))

PossibleNames(ks, machines) ==
    UNION {{GroupName(ks[t[1]], GroupingValues(ks[t[1]], machines[t[2]].spec)[j]) :
               j \in 1..Len(GroupingValues(ks[t[1]], machines[t[2]].spec))} :
           t \in (1..Len(ks)) \X (1..Len(machines))}

\* C1 (as stated): for every VM list and every list of grouping keys (the
\* defaults standing for an omitted or empty list), get_inventory returns a
\* mapping in which each group "key=v" holds exactly one entry of a VM per
\* key and list element resolving to v, in VM order, and nothing else.
C1_GroupsHoldMatchingHosts ==
    pc = "built" =>
        /\ inventory.kind = "return"
        /\ \A name \in GroupNames(inventory.v) \cup PossibleNames(EffectiveKeys(keys), vms) :
               HostsOf(inventory.v, name) = ExpectedHosts(name, EffectiveKeys(keys), vms)

\* C1 (what holds of it): whenever get_inventory returns, its groups are as
\* C1 says.
C1_WhenReturned ==
    (pc = "built" /\ inventory.kind = "return") =>
        \A name \in GroupNames(inventory.v) \cup PossibleNames(EffectiveKeys(keys), vms) :
            HostsOf(inventory.v, name) = ExpectedHosts(name, EffectiveKeys(keys), vms)

IsPrefix(s, t) == Len(s) <= Len(t) /\ SubSeq(t, 1, Len(s)) = s

\* C6: in every inventory get_inventory returns, each group has at least one
\* host and is named "key=value" for a grouping key and a value (or list
\* element) that key resolves to, not None, on some VM; a VM on which a key
\* resolves to None, or is missing, is in no group of that key.
C6_NoGroupForNone ==
    (pc = "built" /\ inventory.kind = "return") =>
        LET ks == EffectiveKeys(keys)
        IN  /\ \A g \in 1..Len(inventory.v) :
                  /\ inventory.v[g].hosts # <<>>
                  /\ \E i \in 1..Len(ks), m \in 1..Len(vms) :
                        LET value == get_key(ks[i], vms[m].spec).v
                        IN  /\ value # None
                            /\ IF value.tag = "list"
                               THEN \E j \in 1..Len(value.items) :
                                       inventory.v[g].name
                                           = GroupName(ks[i], value.items[j])
                               ELSE inventory.v[g].name = GroupName(ks[i], value)
            /\ \A i \in 1..Len(ks), m \in 1..Len(vms) :
                  get_key(ks[i], vms[m].spec) = Returned(None) =>
                      \A g \in 1..Len(inventory.v) :
                          IsPrefix(ks[i] \o <<"=">>, inventory.v[g].name) =>
                              \A h \in 1..Len(inventory.v[g].hosts) :
                                  inventory.v[g].hosts[h] # _generate_entry(vms[m])

C6_Witness ==
    /\ pc = "built"
    /\ inventory.kind = "return"
    /\ Len(inventory.v) >= 2
    /\ \E i \in 1..Len(EffectiveKeys(keys)), m \in 1..Len(vms) :
          /\ get_key(EffectiveKeys(keys)[i], vms[m].spec) = Returned(None)
          /\ \E g \in 1..Len(inventory.v) :
                IsPrefix(EffectiveKeys(keys)[i] \o <<"=">>, inventory.v[g].name)

\* C7: with the keys omitted (None) or an empty list, get_inventory gives
\* what it gives for ["vm-type", "groups", "vm-provider"], an exception
\* included; a non-empty list is used as given: the groups are those of its
\* keys, each named after one of them, and none comes from a default key.
C7_DefaultKeys ==
    pc = "built" =>
        /\ (keys = None \/ keys = PyList(<<>>)) =>
               inventory = get_inventory(PyList(DefaultKeys), vms)
        /\ (keys.tag = "list" /\ keys.items # <<>> /\ inventory.kind = "return") =>
               /\ \A g \in 1..Len(inventory.v) :
                      \E i \in 1..Len(keys.items) :
                          IsPrefix(keys.items[i] \o <<"=">>, inventory.v[g].name)
               /\ PossibleNames(keys.items, vms) = GroupNames(inventory.v)

C7_Witness ==
    /\ pc = "built"
    /\ keys = PyList(<<>>)
    /\ inventory.kind = "return"
    /\ Len(inventory.v) >= 2

\* The lines between the newlines of the rendered text, none for the empty
\* text.
TextLines == IF text.v = <<>> THEN <<>> ELSE Split(text.v, "\n")

Header(name) == <<"[">> \o name \o <<"]">>

IsSorted(hosts) ==
    \A i \in 1..(Len(hosts) - 1) : StrLeq(hosts[i], hosts[i + 1])

Occurrences(hosts, host) == Cardinality({i \in 1..Len(hosts) : hosts[i] = host})

SameHosts(hosts1, hosts2) ==
    /\ Len(hosts1) = Len(hosts2)
    /\ \A i \in 1..Len(hosts1) :
          Occurrences(hosts1, hosts1[i]) = Occurrences(hosts2, hosts1[i])

\* lines are, for the groups of remaining in some order, each group's header
\* followed by its hosts sorted.
RECURSIVE RendersGroups(_, _, _)
RendersGroups(lines, groups, remaining) ==
    IF lines = <<>> THEN remaining = {}
    ELSE \E g \in remaining :
            LET n == Len(groups[g].hosts)
            IN  /\ Len(lines) >= n + 1
                /\ lines[1] = Header(groups[g].name)
                /\ IsSorted(SubSeq(lines, 2, n + 1))
                /\ SameHosts(SubSeq(lines, 2, n + 1), groups[g].hosts)
                /\ RendersGroups(SubSeq(lines, n + 2, Len(lines)), groups,
                                 remaining \ {g})

\* The same, the groups taken in the order of their insertion from group g on.
RECURSIVE RendersGroupsInOrder(_, _, _)
RendersGroupsInOrder(lines, groups, g) ==
    IF g > Len(groups) THEN lines = <<>>
    ELSE LET n == Len(groups[g].hosts)
         IN  /\ Len(lines) >= n + 1
             /\ lines[1] = Header(groups[g].name)
             /\ IsSorted(SubSeq(lines, 2, n + 1))
             /\ SameHosts(SubSeq(lines, 2, n + 1), groups[g].hosts)
             /\ RendersGroupsInOrder(SubSeq(lines, n + 2, Len(lines)), groups, g + 1)

IsHeader(line) == Len(line) >= 2 /\ Head(line) = "[" /\ line[Len(line)] = "]"

RECURSIVE ParseIni(_)
ParseIni(lines) ==
    IF lines = <<>> THEN <<>>
    ELSE LET before == ParseIni(SubSeq(lines, 1, Len(lines) - 1))
             line == lines[Len(lines)]
         IN  IF IsHeader(line)
             THEN Append(before, [name |-> SubSeq(line, 2, Len(line) - 1),
                                  hosts |-> <<>>])
             ELSE IF before = <<>>
                  THEN <<[name |-> <<>>, hosts |-> <<line>>]>>
                  ELSE [before EXCEPT ![Len(before)].hosts = Append(@, line)]

HostSet(hosts) == {hosts[i] : i \in 1..Len(hosts)}

RoundTrip(parsed, groups) ==
    /\ Len(parsed) = Len(groups)
    /\ GroupNames(parsed) = GroupNames(groups)
    /\ \A g \in 1..Len(parsed) :
          /\ HostSet(parsed[g].hosts) = HostSet(HostsOf(groups, parsed[g].name))
          /\ IsSorted(parsed[g].hosts)

C3_ClosedOnEveryExit ==
    pc = "left" => (~temp_file.open /\ ~temp_file.exists)

\* C3 (what holds of it): the file is closed and deleted when the with-block
\* completes or is left early.
C3_ClosedUnlessRaised ==
    (pc = "left" /\ leaving # "exception") => (~temp_file.open /\ ~temp_file.exists)

\* C4: at the yield the file holds exactly the text get_inventory_str
\* returned, all of it written out, the position is 0, and write, flush and
\* seek were called before the yield in that order; what the caller then
\* reads is that text.
C4_FileReadyAtYield ==
    /\ (pc = "with-block" /\ ~read_back.done) =>
           /\ temp_file.open
           /\ temp_file.data = text.v
           /\ temp_file.disk = text.v
           /\ temp_file.position = 0
           /\ temp_file.calls = <<"write", "flush", "seek">>
    /\ read_back.done => read_back.chars = text.v

C4_Witness ==
    /\ pc = "with-block"
    /\ read_back.done
    /\ Len(Split(read_back.chars, "\n")) >= 4

====
